---- MODULE Spec2Model ----
(***************************************************************************)
(* Model of report_tools.py: the pricelist builder, the price reference   *)
(* normalizer and the three report assemblers.                             *)
(*                                                                         *)
(* Tables are sequences of rows.  A cell is a record [k, n, s]: a number   *)
(* (k = "num"), a text (k = "str"), a missing value NaN (k = "null") or    *)
(* Python's None (k = "none").  Money is kept in hundredths, so that the   *)
(* VAT factor 1.12 is the integer factor 112 on an amount in whole units.  *)
(* A quotient (Volume) is kept as an unreduced fraction [n, d].            *)
(***************************************************************************)
EXTENDS Integers, Sequences, FiniteSets, TLC

VARIABLES pc, pl, pl_m0, price_ref, pr, price_map, inp, refs, frame, report

vars == <<pc, pl, pl_m0, price_ref, pr, price_map, inp, refs, frame, report>>

(* ------------------------------ cells ---------------------------------- *)

Null == [k |-> "null", n |-> 0, s |-> ""]

NoneV == [k |-> "none", n |-> 0, s |-> ""]

Num(x) == [k |-> "num", n |-> x, s |-> ""]

Str(t) == [k |-> "str", n |-> 0, s |-> t]

IsNa(c) == c.k \in {"null", "none"}

FillNa(c, d) == IF IsNa(c) THEN Num(d) ELSE c

Digits == <<"0", "1", "2", "3", "4", "5", "6", "7", "8", "9">>

RECURSIVE IntStr(_)
IntStr(i) == IF i < 10 THEN Digits[i + 1] ELSE IntStr(i \div 10) \o Digits[(i % 10) + 1]

\* Series.astype(str) on one cell
AsStr(c) ==
    CASE c.k = "num" -> IF c.n < 0 THEN "-" \o IntStr(-c.n) ELSE IntStr(c.n)
      [] c.k = "str" -> c.s
      [] c.k = "none" -> "None"
      [] OTHER -> "nan"

\* the largest number whose decimal text occurs among the modelled inputs
MaxParse == 12

\* pd.to_numeric(errors='coerce') on one cell
ToNumeric(c) ==
    CASE c.k = "num" -> c
      [] c.k = "str" ->
           IF \E i \in 0..MaxParse : IntStr(i) = c.s
           THEN Num(CHOOSE i \in 0..MaxParse : IntStr(i) = c.s)
           ELSE Null
      [] OTHER -> Null

(* ---------------------------- sequences -------------------------------- *)

Range(f) == {f[i] : i \in DOMAIN f}

SeqsUpTo(S, m) == UNION {[1..k -> S] : k \in 0..m}

RECURSIVE SumSeq(_)
SumSeq(q) == IF q = <<>> THEN 0 ELSE Head(q) + SumSeq(Tail(q))

RECURSIVE Flatten(_)
Flatten(qq) == IF qq = <<>> THEN <<>> ELSE Head(qq) \o Flatten(Tail(qq))

Filter(q, Test(_)) == SelectSeq(q, Test)

\* the elements of q without repetition, in order of first occurrence
RECURSIVE Distinct(_)
Distinct(q) ==
    IF q = <<>> THEN <<>>
    ELSE LET d == Distinct(SubSeq(q, 1, Len(q) - 1))
         IN IF q[Len(q)] \in Range(d) THEN d ELSE Append(d, q[Len(q)])

\* stable insertion sort: the positions of ks in ascending order of key,
\* equal keys in their original order
RECURSIVE InsertPos(_, _, _)
InsertPos(p, ks, x) ==
    IF p = <<>> THEN <<x>>
    ELSE IF ks[x] < ks[Head(p)] THEN <<x>> \o p
    ELSE <<Head(p)>> \o InsertPos(Tail(p), ks, x)

RECURSIVE SortPerm(_, _)
SortPerm(ks, m) == IF m = 0 THEN <<>> ELSE InsertPos(SortPerm(ks, m - 1), ks, m)

SortBy(q, Key(_)) ==
    LET ks == [i \in DOMAIN q |-> Key(q[i])]
        p == SortPerm(ks, Len(q))
    IN [i \in DOMAIN q |-> q[p[i]]]

(* ------------------------------ frames --------------------------------- *)
\* A frame is [cols: the column labels in order, rows: a sequence of
\* functions from the column labels to cells].

HasCol(f, c) == c \in Range(f.cols)

Rename(f, old, new) ==
    [cols |-> [i \in DOMAIN f.cols |-> IF f.cols[i] = old THEN new ELSE f.cols[i]],
     rows |-> [i \in DOMAIN f.rows |->
                 [c \in (Range(f.cols) \ {old}) \cup {new} |->
                     IF c = new THEN f.rows[i][old] ELSE f.rows[i][c]]]]

\* pr[c] = v: a new last column holding v in every row, or column c overwritten
SetCol(f, c, v) ==
    [cols |-> IF HasCol(f, c) THEN f.cols ELSE Append(f.cols, c),
     rows |-> [i \in DOMAIN f.rows |->
                 [d \in Range(f.cols) \cup {c} |-> IF d = c THEN v ELSE f.rows[i][d]]]]

MapCol(f, c, Op(_)) ==
    [cols |-> f.cols,
     rows |-> [i \in DOMAIN f.rows |->
                 [d \in Range(f.cols) |-> IF d = c THEN Op(f.rows[i][d]) ELSE f.rows[i][d]]]]

Project(f, cs) ==
    [cols |-> cs,
     rows |-> [i \in DOMAIN f.rows |-> [c \in Range(cs) |-> f.rows[i][c]]]]

(* ------------------------ build_m0_pricelist --------------------------- *)

VAT == 112

EXCLUDED_CLASS == "BEV Dealer"

EXCLUDED_CHANNEL == "VAN(EXTRUCK)"

UOMS == <<"Case", "Subcase", "Piece">>

\* df['with_vat'] = df['selling_price'] * 1.12
WithVat(c) == IF IsNa(c) THEN Null ELSE Num(c.n * VAT)

\* df[(cust_class != 'BEV Dealer') & (cust_channel != 'VAN(EXTRUCK)')]
KeptRow(r) == r.cust_class # EXCLUDED_CLASS /\ r.cust_channel # EXCLUDED_CHANNEL

\* the order pivot_table gives its index: ascending by the index columns
ProductOrder == <<"P1", "P2">>

DescriptionOrder == <<"A", "B">>

RankIn(order, x) == CHOOSE i \in DOMAIN order : order[i] = x

PivotIndexKey(r) == <<r.product_code, r.product_description>>

\* the index of the pivot: one entry per (product_code, product_description)
PivotIndex(df) ==
    LET ks == Distinct([i \in DOMAIN df |-> PivotIndexKey(df[i])])
        Key(k) == RankIn(ProductOrder, k[1]) * (Len(DescriptionOrder) + 1)
                      + RankIn(DescriptionOrder, k[2])
    IN SortBy(ks, Key)

\* one cell of the pivot (aggfunc='sum', no fill_value): the sum of with_vat
\* over the rows of the group with that unit, NaN when the group has none
PivotCell(df, key, col) ==
    LET q == Filter(df, LAMBDA r : PivotIndexKey(r) = key /\ r.uom_description = col)
    IN IF q = <<>> THEN Null
       ELSE Num(SumSeq([i \in DOMAIN q |-> FillNa(WithVat(q[i].selling_price), 0).n]))

\* a unit column of pl_m0: the pivot's column, or 0 when the pivot has no such column
UnitColumn(df, key, col) ==
    IF \E i \in DOMAIN df : df[i].uom_description = col
    THEN PivotCell(df, key, col)
    ELSE Num(0)

BuildPlM0(pl_df) ==
    LET df == Filter(pl_df, KeptRow)
        idx == PivotIndex(df)
    IN [i \in DOMAIN idx |->
          [product_code |-> idx[i][1], product_description |-> idx[i][2],
           Case |-> UnitColumn(df, idx[i], "Case"),
           Subcase |-> UnitColumn(df, idx[i], "Subcase"),
           Piece |-> UnitColumn(df, idx[i], "Piece")]]

PriceRefCols == <<"SKU CODE", "SKU PRICE REFERENCE", "Product Code">>

\* price_ref = pl_m0[['product_code','Case']] renamed, plus 'Product Code'
BuildPriceRef(m0) ==
    [kind |-> "frame", cols |-> PriceRefCols,
     rows |-> [i \in DOMAIN m0 |->
                 [c \in Range(PriceRefCols) |->
                     IF c = "SKU PRICE REFERENCE" THEN m0[i].Case
                     ELSE Str(m0[i].product_code)]]]

(* -------------------------- _ensure_price_ref -------------------------- *)

ALLOWED_PRODUCT_COLS == <<"Product Code", "product_code", "SKU CODE">>

CanonCols == <<"Product Code", "SKU PRICE REFERENCE">>

\* Series.reset_index(): the index becomes the first column; an unnamed index
\* is labelled 'index' and an unnamed series 0
ResetIndex(s) ==
    LET a == IF s.cols[1] = "" THEN "index" ELSE s.cols[1]
        b == IF s.cols[2] = "" THEN "0" ELSE s.cols[2]
    IN [cols |-> <<a, b>>,
        rows |-> [i \in DOMAIN s.rows |->
                    [c \in {a, b} |-> IF c = a THEN s.rows[i].index ELSE s.rows[i].value]]]

\* variant: the last allowed header present instead of the first
ProductColMutLast(f) ==
    LET hit == {i \in DOMAIN ALLOWED_PRODUCT_COLS : HasCol(f, ALLOWED_PRODUCT_COLS[i])}
    IN IF hit = {} THEN ""
       ELSE ALLOWED_PRODUCT_COLS[CHOOSE i \in hit : \A j \in hit : j <= i]

\* the allowed header the loop of lines 65-69 stops at ("" when there is none)
ProductCol(f) ==
    LET hit == {i \in DOMAIN ALLOWED_PRODUCT_COLS : HasCol(f, ALLOWED_PRODUCT_COLS[i])}
    IN IF hit = {} THEN ""
       ELSE ALLOWED_PRODUCT_COLS[CHOOSE i \in hit : \A j \in hit : i <= j]

RenameProduct(f) ==
    LET c == ProductCol(f)
    IN IF c # "" /\ c # "Product Code" THEN Rename(f, c, "Product Code") ELSE f

\* lines 72-73
RenameCase(f) ==
    IF ~HasCol(f, "SKU PRICE REFERENCE") /\ HasCol(f, "Case")
    THEN Rename(f, "Case", "SKU PRICE REFERENCE")
    ELSE f

\* lines 75-81
ChoosePrice(f) ==
    IF HasCol(f, "SKU PRICE REFERENCE") THEN f
    ELSE LET candidates == Filter(f.cols, LAMBDA c : c # "Product Code")
         IN IF candidates # <<>>
            THEN Rename(f, candidates[1], "SKU PRICE REFERENCE")
            ELSE SetCol(f, "SKU PRICE REFERENCE", Num(0))

\* lines 84-87
EnsureCanon(f) ==
    LET g == IF HasCol(f, "Product Code") THEN f ELSE SetCol(f, "Product Code", NoneV)
    IN IF HasCol(g, "SKU PRICE REFERENCE") THEN g ELSE SetCol(g, "SKU PRICE REFERENCE", Num(0))

\* variant: the coercion without fillna(0)
CoercePriceMutNoFill(c) == ToNumeric(c)

\* pd.to_numeric(..., errors='coerce').fillna(0)
CoercePrice(c) == FillNa(ToNumeric(c), 0)

EnsurePriceRef(p) ==
    IF p.kind = "none" THEN [cols |-> CanonCols, rows |-> <<>>]
    ELSE LET f0 == IF p.kind = "series" THEN ResetIndex(p)
                   ELSE [cols |-> p.cols, rows |-> p.rows]
             f1 == EnsureCanon(ChoosePrice(RenameCase(RenameProduct(f0))))
         IN Project(MapCol(f1, "SKU PRICE REFERENCE", CoercePrice), CanonCols)

(* --------------------------- _build_price_map -------------------------- *)

\* dict(zip(keys, vals)): a later row replaces an earlier one with the same key
RECURSIVE ZipDict(_, _)
ZipDict(keys, vals) ==
    IF keys = <<>> THEN <<>>
    ELSE LET n == Len(keys)
             d == ZipDict(SubSeq(keys, 1, n - 1), SubSeq(vals, 1, n - 1))
             hit == {i \in DOMAIN d : d[i].key = keys[n]}
         IN IF hit = {} THEN Append(d, [key |-> keys[n], val |-> vals[n]])
            ELSE [i \in DOMAIN d |-> IF i \in hit THEN [key |-> keys[n], val |-> vals[n]] ELSE d[i]]

BuildPriceMap(p) ==
    LET q == EnsurePriceRef(p)
    IN ZipDict([i \in DOMAIN q.rows |-> AsStr(q.rows[i]["Product Code"])],
               [i \in DOMAIN q.rows |-> CoercePrice(q.rows[i]["SKU PRICE REFERENCE"]).n])

\* Series.map(price_map).fillna(0) on one key
MapPrice(m, key) ==
    IF \E i \in DOMAIN m : m[i].key = key
    THEN m[CHOOSE i \in DOMAIN m : m[i].key = key].val
    ELSE 0

(* ------------------------------- merges -------------------------------- *)

\* DataFrame.merge(how='left'): every left row once per matching right row, in
\* the order of the left rows, or once with the right columns missing
LeftMerge(left, right, Match(_, _), With(_, _), Without(_)) ==
    Flatten([i \in DOMAIN left |->
        LET m == Filter(right, LAMBDA r : Match(left[i], r))
        IN IF m = <<>> THEN <<Without(left[i])>>
           ELSE [j \in DOMAIN m |-> With(left[i], m[j])]])

\* DataFrame.merge(how='inner'): the left rows without a match are dropped
InnerMerge(left, right, Match(_, _), With(_, _)) ==
    Flatten([i \in DOMAIN left |->
        LET m == Filter(right, LAMBDA r : Match(left[i], r))
        IN [j \in DOMAIN m |-> With(left[i], m[j])]])

\* the customer columns the assemblers select; KEY_ACCOUNT stands for the
\* descriptive columns, which are all carried the same way
MergeCustomer(t, cust_df) ==
    LeftMerge(t, cust_df,
              LAMBDA l, r : l.ACCOUNT_CODE = r.NEXT_UP_NUMBER,
              LAMBDA l, r : l @@ [SALES_REP_ID |-> r.SALES_REP_ID, KEY_ACCOUNT |-> r.KEY_ACCOUNT],
              LAMBDA l : l @@ [SALES_REP_ID |-> Null, KEY_ACCOUNT |-> Null])

MergeCategory(t, category) ==
    LeftMerge(t, category,
              LAMBDA l, r : l.SKU_CODE = r.SKU_CODE,
              LAMBDA l, r : l @@ [CATEGORY |-> r.CATEGORY],
              LAMBDA l : l @@ [CATEGORY |-> Null])

MergeSupervisors(t, fs) ==
    LeftMerge(t, fs,
              LAMBDA l, r : l.SALES_REP_ID = r.SALES_REP_ID,
              LAMBDA l, r : l @@ [FS |-> r.FS],
              LAMBDA l : l @@ [FS |-> Null])

\* variant: the week merge as a left merge
MergeWeekMutLeft(t, week) ==
    LeftMerge(t, week,
              LAMBDA l, r : l.DATE = r.DATE,
              LAMBDA l, r : l @@ [WEEK |-> r.WEEK],
              LAMBDA l : l @@ [WEEK |-> Null])

MergeWeek(t, week) ==
    InnerMerge(t, week,
               LAMBDA l, r : l.DATE = r.DATE,
               LAMBDA l, r : l @@ [WEEK |-> r.WEEK])

\* the four merges of lines 196-199, 234-237 and 283-288
MergeRefs(t, cust_df, r) ==
    MergeWeek(MergeSupervisors(MergeCategory(MergeCustomer(t, cust_df), r.category),
                               r.field_supervisors), r.week)

\* df.sort_values(by=[date, customer])
KeyBase == 1000

SortReport(t) == SortBy(t, LAMBDA r : r.DATE * KeyBase + r.ACCOUNT_CODE)

(* ----------------------------- quotients ------------------------------- *)

Zero == [n |-> 0, d |-> 1]

Quot(a, b) == [n |-> a, d |-> b]

(* ------------------------ assemble_net_invoiced ------------------------ *)

Scale == 100

TAX_TYPE == "ITM_SALES_TAX"

Tagged(t) == [i \in DOMAIN t |-> t[i] @@ [line |-> i]]

NotTax(r) == r.type # TAX_TYPE

\* lines 169-175 and 227-231; src names the invoice line the row comes from
InvoiceRows(invoice) ==
    LET kept == Filter(Tagged(invoice), NotTax)
    IN [i \in DOMAIN kept |->
          [DATE |-> kept[i].date, ACCOUNT_CODE |-> kept[i].cust, SKU_CODE |-> kept[i].code,
           SKU_NAME |-> kept[i].desc,
           SERVED_INVOICE |-> Num(FillNa(kept[i].amount, 0).n * Scale),
           src |-> <<"invoice", kept[i].line>>]]

\* ret['with_vat'] = ret['Estimated Product Return Amount'].fillna(0) * 1.12
ReturnWithVat(r) == FillNa(r.amount, 0).n * VAT

ReturnKey(r) == <<r.date, r.cust, r.code, r.desc>>

\* the rows pivot_table groups: a row with a missing facility is in no group
Grouped(returns) == Filter(returns, LAMBDA r : ~IsNa(r.facility))

ReturnIndex(returns) ==
    LET g == Grouped(returns)
    IN SortBy(Distinct([i \in DOMAIN g |-> ReturnKey(g[i])]),
              LAMBDA k : (k[1] * KeyBase + k[2]) * KeyBase + k[3].n)

\* one cell of the returns pivot (aggfunc='sum', no fill_value)
ReturnCell(returns, key, fac) ==
    LET q == Filter(Grouped(returns), LAMBDA r : ReturnKey(r) = key /\ r.facility = Str(fac))
    IN IF q = <<>> THEN Null ELSE Num(SumSeq([i \in DOMAIN q |-> ReturnWithVat(q[i])]))

\* lines 183-185: the column of the pivot, or 0 when the pivot has no such column
FacilityColumn(returns, key, fac) ==
    IF \E i \in DOMAIN returns : returns[i].facility = Str(fac)
    THEN ReturnCell(returns, key, fac)
    ELSE Num(0)

\* lines 177-190
ReturnRows(returns) ==
    LET idx == ReturnIndex(returns)
    IN [i \in DOMAIN idx |->
          [DATE |-> idx[i][1], ACCOUNT_CODE |-> idx[i][2], SKU_CODE |-> idx[i][3],
           SKU_NAME |-> idx[i][4],
           BAD_RETURNS |-> FacilityColumn(returns, idx[i], "BO"),
           GOOD_RETURNS |-> FacilityColumn(returns, idx[i], "FG"),
           SERVED_INVOICE |-> Num(0),
           src |-> <<"returns", i>>]]

\* variant: the lookup without astype(str)
KeyedPriceMutRaw(m, code) == IF code.k = "str" THEN MapPrice(m, code.s) ELSE 0

\* net['SKU CODE'].astype(str).map(price_map).fillna(0)
KeyedPrice(m, code) == MapPrice(m, AsStr(code))

\* line 208
NetValue(r) ==
    FillNa(r.SERVED_INVOICE, 0).n - FillNa(r.BAD_RETURNS, 0).n - FillNa(r.GOOD_RETURNS, 0).n

\* lines 209-211 and 242-244
KeyedVolume(value, price) == IF price # 0 THEN Quot(value, price) ELSE Zero

NetFrame(i, r, p) ==
    LET inv == [k \in DOMAIN InvoiceRows(i.invoice) |->
                   InvoiceRows(i.invoice)[k] @@ [BAD_RETURNS |-> Num(0), GOOD_RETURNS |-> Num(0)]]
        net == MergeRefs(inv \o ReturnRows(i.returns), i.customer, r)
        price_m == BuildPriceMap(p)
    IN [k \in DOMAIN net |->
          LET price == KeyedPrice(price_m, net[k].SKU_CODE)
              value == NetValue(net[k])
          IN net[k] @@ [PRICE |-> Num(price), VALUE |-> Num(value),
                        VOLUME |-> KeyedVolume(value, price)]]

(* ----------------------- assemble_served_invoice ----------------------- *)

ServedFrame(i, r, p) ==
    LET df == MergeRefs(InvoiceRows(i.invoice), i.customer, r)
        price_m == BuildPriceMap(p)
    IN [k \in DOMAIN df |->
          LET price == KeyedPrice(price_m, df[k].SKU_CODE)
              value == df[k].SERVED_INVOICE.n
          IN df[k] @@ [PRICE |-> Num(price), VALUE |-> Num(value),
                       VOLUME |-> KeyedVolume(value, price)]]

(* ------------------------ assemble_sales_orders ------------------------ *)

INVOICED == "Invoiced"

IsInvoiced(r) == r.status = INVOICED

\* lines 253-266
OrderRows(sales_order) ==
    LET so == Filter(Tagged(sales_order), IsInvoiced)
    IN [i \in DOMAIN so |->
          [DATE |-> so[i].date, ACCOUNT_CODE |-> so[i].cust, SKU_CODE |-> so[i].code,
           SKU_NAME |-> so[i].desc,
           VALUE |-> Num(FillNa(ToNumeric(so[i].amount), 0).n * VAT),
           src |-> <<"sales_order", so[i].line>>]]

\* variant: the price of the next row of the reference
PositionalPriceMutShift(q, k) ==
    IF k + 1 \in DOMAIN q.rows THEN CoercePrice(q.rows[k + 1]["SKU PRICE REFERENCE"]) ELSE Null

\* line 293: the column is assigned by row label; the joined table and the
\* normalized reference are both labelled 0, 1, 2, ..., and a row of the
\* joined table past the end of the reference gets NaN
PositionalPrice(q, k) ==
    IF k \in DOMAIN q.rows THEN CoercePrice(q.rows[k]["SKU PRICE REFERENCE"]) ELSE Null

\* lines 296-302: NaN != 0 holds, NaN divides to NaN, and fillna(0) makes it 0
PositionalVolume(value, price) ==
    IF price # Num(0)
    THEN (IF IsNa(price) THEN Zero ELSE Quot(value.n, price.n))
    ELSE Zero

OrdersFrame(i, r, p) ==
    LET df == MergeRefs(OrderRows(i.sales_order), i.customer, r)
        q == EnsurePriceRef(p)
    IN [k \in DOMAIN df |->
          LET price == PositionalPrice(q, k)
          IN df[k] @@ [PRICE |-> price, VOLUME |-> PositionalVolume(df[k].VALUE, price)]]

(* ------------------------------- reports ------------------------------- *)

\* the rename and the projection to the fixed column list, then the sort
PlainReport(t) ==
    SortReport([k \in DOMAIN t |->
        [RD_Name |-> "Kimberlin", DATE |-> t[k].DATE, Week |-> t[k].WEEK,
         Employee_Code |-> t[k].SALES_REP_ID, Channel |-> t[k].KEY_ACCOUNT,
         ACCOUNT_CODE |-> t[k].ACCOUNT_CODE, Category |-> t[k].CATEGORY,
         Product_Code |-> t[k].SKU_CODE, Product_Description |-> t[k].SKU_NAME,
         Volume |-> t[k].VOLUME, Value |-> t[k].VALUE, FS |-> t[k].FS]])

NetReport(t) ==
    SortReport([k \in DOMAIN t |->
        [RD_Name |-> "Kimberlin", DATE |-> t[k].DATE, Week |-> t[k].WEEK,
         Employee_Code |-> t[k].SALES_REP_ID, Channel |-> t[k].KEY_ACCOUNT,
         ACCOUNT_CODE |-> t[k].ACCOUNT_CODE, Category |-> t[k].CATEGORY,
         Product_Code |-> t[k].SKU_CODE, Product_Description |-> t[k].SKU_NAME,
         Volume |-> t[k].VOLUME, Net_Value |-> t[k].VALUE,
         Good_Stock_Returns |-> t[k].GOOD_RETURNS, Bad_Stock_Returns |-> t[k].BAD_RETURNS,
         FS |-> t[k].FS]])

(* ------------------------- inputs and bounds --------------------------- *)

MaxPl == 2

PlProducts == {"P1", "P2"}

PlDescriptions == {"A", "B"}

PlPrices == {Num(100), Num(50)}

PlSegments == {<<"Retail", "GT">>, <<"BEV Dealer", "GT">>, <<"Retail", "VAN(EXTRUCK)">>}

PlRows ==
    {[product_code |-> p, product_description |-> d, uom_description |-> u,
      selling_price |-> a, cust_class |-> g[1], cust_channel |-> g[2]] :
        p \in PlProducts, d \in PlDescriptions, u \in Range(UOMS), a \in PlPrices,
        g \in PlSegments}

MaxCols == 2

MaxCells == 3

ColNames == {"Product Code", "product_code", "SKU CODE", "SKU PRICE REFERENCE", "Case", "other"}

Cells == {Num(7), Str("7"), Str("x"), Null}

Injective(q) == \A i, j \in DOMAIN q : q[i] = q[j] => i = j

ColSeqs == {q \in SeqsUpTo(ColNames, MaxCols) : Injective(q)}

RawFrames ==
    UNION {{[kind |-> "frame", cols |-> cs, rows |-> rs] :
              rs \in UNION {[1..m -> [Range(cs) -> Cells]] :
                               m \in {m \in 0..MaxCells : m * Len(cs) <= MaxCells /\ (cs = <<>> => m = 0)}}} :
           cs \in ColSeqs}

RawSeries ==
    {[kind |-> "series", cols |-> <<a, b>>, rows |-> rs] :
        a \in {"", "Product Code", "SKU CODE"}, b \in {"", "SKU PRICE REFERENCE", "Case"},
        rs \in UNION {[1..m -> [index : Cells, value : Cells]] :
                         m \in {m \in 0..MaxCells : 2 * m <= MaxCells}}}

NoRef == [kind |-> "none", cols |-> <<>>, rows |-> <<>>]

NoFrame == [cols |-> <<>>, rows |-> <<>>]

NoInp == [invoice |-> <<>>, returns |-> <<>>, sales_order |-> <<>>, customer |-> <<>>]

NoRefs == [category |-> <<>>, field_supervisors |-> <<>>, week |-> <<>>]

MaxInv == 2

MaxRet == 2

MaxSO == 2

MaxPr == 2

Dates == {1, 2}

InvRow(t, d, c, k, a) ==
    [type |-> t, date |-> d, cust |-> c, code |-> k, desc |-> "item", amount |-> a]

RetRow(d, k, f, a) ==
    [date |-> d, cust |-> 1, code |-> k, desc |-> "item", facility |-> f, amount |-> a]

SoRow(st, d, a) ==
    [status |-> st, date |-> d, cust |-> 1, code |-> Num(1), desc |-> "item", amount |-> a]

PrRow(k, p) ==
    [c \in Range(PriceRefCols) |-> IF c = "SKU PRICE REFERENCE" THEN p ELSE k]

PrFrame(rows) == [kind |-> "frame", cols |-> PriceRefCols, rows |-> rows]

\* invoice lines that differ in what the filter and the joins read
InvRowsJoin ==
    {InvRow(t, d, 1, Num(1), Num(224)) : t \in {"ITM_PRODUCT", TAX_TYPE}, d \in Dates}

\* invoice lines that differ in what the price lookup reads
InvoicePrice ==
    <<InvRow("ITM_PRODUCT", 1, 1, Num(1), Num(224)), InvRow("ITM_PRODUCT", 1, 1, Str("1"), Null),
      InvRow("ITM_PRODUCT", 2, 1, Num(2), Num(224))>>

RetRows ==
    {RetRow(d, Num(1), f, Num(100)) : d \in Dates, f \in {Str("BO"), Str("FG"), Str("XX"), Null}}
        \cup {RetRow(1, Num(1), Str("BO"), Null)}

SoRows ==
    {SoRow(st, d, Num(100)) : st \in {INVOICED, "Open"}, d \in Dates}
        \cup {SoRow(INVOICED, 1, Str("x"))}

SoRowsPositional ==
    {SoRow(INVOICED, 1, Num(100)), SoRow("Open", 1, Num(100)), SoRow(INVOICED, 2, Num(100))}

PrRowsKeyed ==
    {PrRow(Str("1"), Num(11200)), PrRow(Num(1), Num(5600)), PrRow(Str("2"), Num(11200)),
     PrRow(Str("1"), Num(0)), PrRow(Str("1"), Null)}

PrRowsPositional ==
    {PrRow(Str("1"), Num(11200)), PrRow(Str("2"), Num(5600)), PrRow(Str("2"), Num(0))}

CustRow(c, rep) == [NEXT_UP_NUMBER |-> c, SALES_REP_ID |-> Str(rep), KEY_ACCOUNT |-> Str("KA")]

CustomerTables == {<<>>, <<CustRow(1, "R1")>>, <<CustRow(1, "R1"), CustRow(1, "R2")>>}

CategoryRow == [SKU_CODE |-> Num(1), CATEGORY |-> Str("Beverages")]

SupervisorRow == [SALES_REP_ID |-> Str("R1"), FS |-> Str("FS1")]

SideTables ==
    {[category |-> <<>>, field_supervisors |-> <<>>],
     [category |-> <<CategoryRow>>, field_supervisors |-> <<SupervisorRow>>]}

WeekRow(d, w) == [DATE |-> d, WEEK |-> Str(w)]

WeekTables ==
    {<<WeekRow(1, "W1")>>, <<WeekRow(1, "W1"), WeekRow(2, "W2")>>,
     <<WeekRow(1, "W1"), WeekRow(1, "W1b")>>}

FullRefs ==
    [category |-> <<CategoryRow>>, field_supervisors |-> <<SupervisorRow>>,
     week |-> <<WeekRow(1, "W1"), WeekRow(2, "W2")>>]

DefaultPrice == PrFrame(<<PrRow(Str("1"), Num(11200))>>)

(* ------------------------------ actions -------------------------------- *)

\* pl_m0, price_ref = build_m0_pricelist(pl)
Build ==
    /\ pc = {}
    /\ pl_m0' = BuildPlM0(pl)
    /\ price_ref' = BuildPriceRef(BuildPlM0(pl))
    /\ pc' = {"built"}
    /\ UNCHANGED <<pl, pr, price_map, inp, refs, frame, report>>

\* pr = _ensure_price_ref(price_ref)
Ensure ==
    /\ "built" \in pc
    /\ pr' = EnsurePriceRef(price_ref)
    /\ pc' = pc \cup {"ensured"}
    /\ UNCHANGED <<pl, pl_m0, price_ref, price_map, inp, refs, frame, report>>

\* price_map = _build_price_map(price_ref)
PriceMap ==
    /\ "built" \in pc
    /\ price_map' = BuildPriceMap(price_ref)
    /\ pc' = pc \cup {"mapped"}
    /\ UNCHANGED <<pl, pl_m0, price_ref, pr, inp, refs, frame, report>>

\* assemble_net_invoiced(inp, refs, price_ref)
AssembleNetInvoiced ==
    /\ pc = {"loaded"}
    /\ frame' = NetFrame(inp, refs, price_ref)
    /\ report' = NetReport(frame')
    /\ pc' = {"loaded", "net"}
    /\ UNCHANGED <<pl, pl_m0, price_ref, pr, price_map, inp, refs>>

\* assemble_served_invoice(inp, refs, price_ref)
AssembleServedInvoice ==
    /\ pc = {"loaded"}
    /\ frame' = ServedFrame(inp, refs, price_ref)
    /\ report' = PlainReport(frame')
    /\ pc' = {"loaded", "served"}
    /\ UNCHANGED <<pl, pl_m0, price_ref, pr, price_map, inp, refs>>

\* assemble_sales_orders(inp, refs, price_ref)
AssembleSalesOrders ==
    /\ pc = {"loaded"}
    /\ frame' = OrdersFrame(inp, refs, price_ref)
    /\ report' = PlainReport(frame')
    /\ pc' = {"loaded", "orders"}
    /\ UNCHANGED <<pl, pl_m0, price_ref, pr, price_map, inp, refs>>

(* --------------------------- specifications ---------------------------- *)

Idle ==
    /\ pl = <<>> /\ pl_m0 = <<>> /\ pr = NoFrame /\ price_map = <<>>
    /\ inp = NoInp /\ refs = NoRefs /\ frame = <<>> /\ report = <<>>

\* the pricelist builder, followed by the normalizer and the price map
InitPL ==
    /\ pc = {}
    /\ pl \in SeqsUpTo(PlRows, MaxPl)
    /\ price_ref = NoRef
    /\ pl_m0 = <<>> /\ pr = NoFrame /\ price_map = <<>>
    /\ inp = NoInp /\ refs = NoRefs /\ frame = <<>> /\ report = <<>>

NextPL == Build \/ Ensure \/ PriceMap

SpecPL == InitPL /\ [][NextPL]_vars

\* the normalizer on a price reference of any shape
InitNorm ==
    /\ pc = {"built"}
    /\ price_ref \in {NoRef} \cup RawSeries \cup RawFrames
    /\ Idle

NextNorm == Ensure

SpecNorm == InitNorm /\ [][NextNorm]_vars

\* the returns pivot next to at most one invoice line
InitReturns ==
    /\ \E inv \in {<<>>, <<InvRow("ITM_PRODUCT", 1, 1, Num(1), Num(224))>>} :
       \E ret \in SeqsUpTo(RetRows, MaxRet) :
          inp = [invoice |-> inv, returns |-> ret, sales_order |-> <<>>,
                 customer |-> <<CustRow(1, "R1")>>]
    /\ \E w \in {FullRefs.week, <<WeekRow(1, "W1")>>} : refs = [FullRefs EXCEPT !.week = w]
    /\ price_ref = DefaultPrice

\* the filter and the four joins on invoice lines or on sales-order lines
InitJoins ==
    /\ \E cu \in CustomerTables :
          \/ \E inv \in SeqsUpTo(InvRowsJoin, MaxInv) :
                inp = [invoice |-> inv, returns |-> <<>>, sales_order |-> <<>>, customer |-> cu]
          \/ \E so \in SeqsUpTo(SoRows, MaxSO) :
                inp = [invoice |-> <<>>, returns |-> <<>>, sales_order |-> so, customer |-> cu]
    /\ \E sd \in SideTables : \E w \in WeekTables :
          refs = [category |-> sd.category, field_supervisors |-> sd.field_supervisors,
                  week |-> w]
    /\ price_ref = DefaultPrice

\* the keyed price lookup of the two invoice assemblers
InitKeyed ==
    /\ \E ret \in {<<>>, <<RetRow(1, Num(1), Str("BO"), Num(100))>>} :
          inp = [invoice |-> InvoicePrice, returns |-> ret, sales_order |-> <<>>,
                 customer |-> <<CustRow(1, "R1")>>]
    /\ refs = FullRefs
    /\ \E rows \in SeqsUpTo(PrRowsKeyed, MaxPr) : price_ref = PrFrame(rows)

\* the positional price of the sales-order assembler
InitPositional ==
    /\ \E so \in SeqsUpTo(SoRowsPositional, MaxSO) :
       \E cu \in CustomerTables \ {<<>>} :
          inp = [invoice |-> <<>>, returns |-> <<>>, sales_order |-> so, customer |-> cu]
    /\ refs = [FullRefs EXCEPT !.week = <<WeekRow(1, "W1")>>]
    /\ \E rows \in SeqsUpTo(PrRowsPositional, MaxPr) :
          price_ref \in {PrFrame(rows), NoRef}

InitAsm ==
    /\ pc = {"loaded"}
    /\ pl = <<>> /\ pl_m0 = <<>> /\ pr = NoFrame /\ price_map = <<>>
    /\ frame = <<>> /\ report = <<>>
    /\ InitReturns \/ InitJoins \/ InitKeyed \/ InitPositional

NextAsm == AssembleNetInvoiced \/ AssembleServedInvoice \/ AssembleSalesOrders

SpecAsm == InitAsm /\ [][NextAsm]_vars

(* ----------------- properties of the pricelist builder ----------------- *)

Retained(p, u) ==
    Filter(pl, LAMBDA r : KeptRow(r) /\ r.product_code = p /\ r.uom_description = u)

RetainedSum(p, u) ==
    LET q == Retained(p, u) IN SumSeq([i \in DOMAIN q |-> FillNa(q[i].selling_price, 0).n])

\* C5: a unit type with no data for a product of the pivot is 0 in the
\* per-product pricelist, and a product with no Case rows has the price
\* reference 0, never a null, whatever rows the other products have.
C5_MissingUnitIsZero ==
    "built" \in pc =>
        /\ \A i \in DOMAIN pl_m0 : \A u \in Range(UOMS) :
              Retained(pl_m0[i].product_code, u) = <<>> => pl_m0[i][u] = Num(0)
        /\ \A i \in DOMAIN price_ref.rows :
              Retained(price_ref.rows[i]["SKU CODE"].s, "Case") = <<>>
                  => price_ref.rows[i]["SKU PRICE REFERENCE"] = Num(0)

\* C6: rows of the excluded class or channel are left out; every product
\* with a retained Case row has the price reference 1.12 times the sum of
\* the selling prices of its retained Case rows, under both identifier columns.
C6_PriceIsVatSum ==
    "built" \in pc =>
        /\ \A p \in PlProducts :
              Retained(p, "Case") # <<>> =>
                 /\ \E i \in DOMAIN price_ref.rows : price_ref.rows[i]["SKU CODE"] = Str(p)
                 /\ \A i \in DOMAIN price_ref.rows :
                       price_ref.rows[i]["SKU CODE"] = Str(p) =>
                          price_ref.rows[i]["SKU PRICE REFERENCE"]
                              = Num(VAT * RetainedSum(p, "Case"))
        /\ \A i \in DOMAIN price_ref.rows :
              /\ price_ref.rows[i]["Product Code"] = price_ref.rows[i]["SKU CODE"]
              /\ \E j \in DOMAIN pl : KeptRow(pl[j])
                                         /\ Str(pl[j].product_code) = price_ref.rows[i]["SKU CODE"]

UniqueCodes(rows, c) ==
    \A i, j \in DOMAIN rows : rows[i][c] = rows[j][c] => i = j

\* C8: every product code maps to at most one price, in the price reference
\* the builder returns, in the normalizer's output and in the price map.
C8_OnePricePerCode ==
    /\ "built" \in pc => UniqueCodes(price_ref.rows, "Product Code")
    /\ "ensured" \in pc => UniqueCodes(pr.rows, "Product Code")
    /\ "mapped" \in pc => \A i, j \in DOMAIN price_map :
                               price_map[i].key = price_map[j].key => i = j

(* -------------------- properties of the normalizer --------------------- *)

\* the table the normalizer reads: the input, a series with its index as a column
InputFrame ==
    IF price_ref.kind = "series" THEN ResetIndex(price_ref)
    ELSE [cols |-> price_ref.cols, rows |-> price_ref.rows]

\* C7: the output has exactly the columns 'Product Code' and 'SKU PRICE
\* REFERENCE' in that order and as many rows as the input; every price is a
\* number, a missing or unparseable one 0; an absent input gives zero rows.
C7_CanonicalShape ==
    "ensured" \in pc =>
        /\ pr.cols = <<"Product Code", "SKU PRICE REFERENCE">>
        /\ Len(pr.rows) = Len(price_ref.rows)
        /\ \A i \in DOMAIN pr.rows :
              /\ DOMAIN pr.rows[i] = {"Product Code", "SKU PRICE REFERENCE"}
              /\ pr.rows[i]["SKU PRICE REFERENCE"].k = "num"
              /\ \/ pr.rows[i]["SKU PRICE REFERENCE"].n = 0
                 \/ \E c \in DOMAIN InputFrame.rows[i] :
                       InputFrame.rows[i][c] \in
                           {pr.rows[i]["SKU PRICE REFERENCE"],
                            Str(IntStr(pr.rows[i]["SKU PRICE REFERENCE"].n))}
        /\ price_ref.kind = "none" => pr.rows = <<>>

C7_Witness ==
    /\ "ensured" \in pc
    /\ price_ref.kind = "frame"
    /\ price_ref.cols = <<"SKU CODE", "Case">>
    /\ Len(price_ref.rows) = 1
    /\ price_ref.rows[1]["Case"] = Str("x")
    /\ pr.rows[1]["SKU PRICE REFERENCE"] = Num(0)

FirstOf(q, Test(_)) == LET h == Filter(q, Test) IN IF h = <<>> THEN "" ELSE h[1]

\* the identifier and the price column by the stated priority ("" for none)
StatedIdentifier(f) == FirstOf(ALLOWED_PRODUCT_COLS, LAMBDA c : HasCol(f, c))

StatedPrice(f) ==
    IF HasCol(f, "SKU PRICE REFERENCE") THEN "SKU PRICE REFERENCE"
    ELSE IF HasCol(f, "Case") THEN "Case"
    ELSE FirstOf(f.cols, LAMBDA c : c # StatedIdentifier(f))

WeekDates == {refs.week[i].DATE : i \in DOMAIN refs.week}

\* the price the normalized reference holds for a code: that of its last row
\* whose code has the same text, 0 when no row has
ReferencePrice(code) ==
    LET q == EnsurePriceRef(price_ref)
        hits == {j \in DOMAIN q.rows : AsStr(q.rows[j]["Product Code"]) = AsStr(code)}
    IN IF hits = {} THEN 0
       ELSE q.rows[CHOOSE j \in hits : \A h \in hits : h <= j]["SKU PRICE REFERENCE"].n

IsQuotient(vol, value, price) == vol.d # 0 /\ vol.n * price = value * vol.d

\* C1: in assemble_net_invoiced and assemble_served_invoice every row's price
\* is the one the normalized reference gives for the row's code as a string,
\* 0 for an unmapped code; Volume is the value divided by the price, and 0
\* when the price is 0; no row is dropped for its price.
C1_KeyedVolume ==
    (pc \cap {"net", "served"} # {}) =>
        /\ \A k \in DOMAIN frame :
              /\ frame[k].PRICE = Num(ReferencePrice(frame[k].SKU_CODE))
              /\ frame[k].PRICE.n # 0 =>
                    IsQuotient(frame[k].VOLUME, frame[k].VALUE.n, frame[k].PRICE.n)
              /\ frame[k].PRICE.n = 0 => frame[k].VOLUME.n = 0
        /\ \A i \in DOMAIN inp.invoice :
              (inp.invoice[i].type # "ITM_SALES_TAX" /\ inp.invoice[i].date \in WeekDates)
                  => \E k \in DOMAIN frame : frame[k].src = <<"invoice", i>>
        /\ \A k \in DOMAIN report :
              \E j \in DOMAIN frame :
                 /\ report[k].Product_Code = frame[j].SKU_CODE
                 /\ report[k].Volume = frame[j].VOLUME
        /\ Len(report) = Len(frame)

C1_Witness ==
    /\ pc \cap {"net", "served"} # {}
    /\ Len(price_ref.rows) = 2
    /\ Len(frame) = 3
    /\ \E k \in DOMAIN frame :
          /\ frame[k].SKU_CODE = Num(1)
          /\ frame[k].PRICE = Num(11200)
          /\ frame[k].VALUE = Num(22400)
          /\ frame[k].VOLUME = [n |-> 22400, d |-> 11200]
    /\ \E k \in DOMAIN frame :
          /\ frame[k].SKU_CODE = Num(2)
          /\ frame[k].PRICE = Num(0)
          /\ frame[k].VOLUME.n = 0

\* the VAT-inclusive sum of the return amounts of a group at one facility
FacilitySum(key, fac) ==
    LET q == Filter(inp.returns, LAMBDA r : <<r.date, r.cust, r.code, r.desc>> = key
                                              /\ r.facility = Str(fac))
    IN SumSeq([i \in DOMAIN q |-> (IF q[i].amount.k = "num" THEN q[i].amount.n ELSE 0) * 112])

RowKey(r) == <<r.DATE, r.ACCOUNT_CODE, r.SKU_CODE, r.SKU_NAME>>

Amount(c) == IF c.k = "num" THEN c.n * 100 ELSE 0

\* subtraction of two cells as the report's reader computes it: a missing
\* operand gives a missing result
Minus(x, y) == IF x.k = "num" /\ y.k = "num" THEN Num(x.n - y.n) ELSE Null

\* C2: in assemble_net_invoiced Net Value is Served Invoice minus Bad Stock
\* Returns minus Good Stock Returns in every row; Served Invoice is the invoice
\* amount (a missing one 0) in a row of an invoice line and 0 in a row of
\* returns, whose Net Value is the negated sum of its two return amounts.
C2_NetValue ==
    "net" \in pc =>
        \A k \in DOMAIN frame :
           LET r == frame[k]
           IN /\ r.VALUE = Minus(Minus(r.SERVED_INVOICE, r.BAD_RETURNS), r.GOOD_RETURNS)
              /\ r.src[1] = "invoice" =>
                    r.SERVED_INVOICE = Num(Amount(inp.invoice[r.src[2]].amount))
              /\ r.src[1] = "returns" =>
                    /\ r.SERVED_INVOICE = Num(0)
                    /\ r.VALUE = Minus(Num(0 - r.BAD_RETURNS.n), r.GOOD_RETURNS)

\* What line 208 computes, for comparison with C2: the same difference with a
\* missing return amount counted as 0, which for a row of returns is minus the
\* VAT-inclusive "BO" and "FG" sums of its group.
NetValueWithMissingAsZero ==
    "net" \in pc =>
        \A k \in DOMAIN frame :
           LET r == frame[k]
               bad == IF r.BAD_RETURNS.k = "num" THEN r.BAD_RETURNS.n ELSE 0
               good == IF r.GOOD_RETURNS.k = "num" THEN r.GOOD_RETURNS.n ELSE 0
           IN /\ r.VALUE = Num(r.SERVED_INVOICE.n - bad - good)
              /\ r.src[1] = "invoice" =>
                    /\ r.SERVED_INVOICE = Num(Amount(inp.invoice[r.src[2]].amount))
                    /\ r.VALUE = r.SERVED_INVOICE
              /\ r.src[1] = "returns" =>
                    /\ r.SERVED_INVOICE = Num(0)
                    /\ r.VALUE = Num(0 - (FacilitySum(RowKey(r), "BO")
                                            + FacilitySum(RowKey(r), "FG")))

\* C3: in the returns pivot Bad Returns is 1.12 times the sum of the "BO"
\* amounts of the group and Good Returns 1.12 times the sum of its "FG"
\* amounts; any other or missing facility gives 0 in both, a number and never
\* a null, whatever facilities the other rows have.
C3_ReturnsPivot ==
    "net" \in pc =>
        \A k \in DOMAIN frame :
           frame[k].src[1] = "returns" =>
              /\ frame[k].BAD_RETURNS = Num(FacilitySum(RowKey(frame[k]), "BO"))
              /\ frame[k].GOOD_RETURNS = Num(FacilitySum(RowKey(frame[k]), "FG"))

UniqueKeys ==
    /\ \A i, j \in DOMAIN inp.customer :
          inp.customer[i].NEXT_UP_NUMBER = inp.customer[j].NEXT_UP_NUMBER => i = j
    /\ \A i, j \in DOMAIN refs.category :
          refs.category[i].SKU_CODE = refs.category[j].SKU_CODE => i = j
    /\ \A i, j \in DOMAIN refs.field_supervisors :
          refs.field_supervisors[i].SALES_REP_ID = refs.field_supervisors[j].SALES_REP_ID => i = j
    /\ \A i, j \in DOMAIN refs.week : refs.week[i].DATE = refs.week[j].DATE => i = j

\* the lines of the assembler's source table that pass its filter
Passing ==
    IF "orders" \in pc
    THEN {<<"sales_order", i>> : i \in {i \in DOMAIN inp.sales_order :
                                          inp.sales_order[i].status = "Invoiced"}}
    ELSE {<<"invoice", i>> : i \in {i \in DOMAIN inp.invoice :
                                      inp.invoice[i].type # "ITM_SALES_TAX"}}

SourceDate(x) ==
    IF x[1] = "sales_order" THEN inp.sales_order[x[2]].date ELSE inp.invoice[x[2]].date

\* C4: the output rows of each assembler are the records that pass its filter
\* and whose date is in the week reference: none comes from a tax line or from
\* an order that is not 'Invoiced', none has a date outside the week reference,
\* and every passing record with a date in it appears, whatever else matches,
\* exactly once when the join keys of the four tables are unique.
C4_FilterAndWeek ==
    (pc \cap {"net", "served", "orders"} # {}) =>
        /\ \A k \in DOMAIN frame :
              /\ frame[k].DATE \in WeekDates
              /\ frame[k].src[1] # "returns" => frame[k].src \in Passing
              /\ frame[k].src[1] = "returns" => "net" \in pc
        /\ \A x \in Passing :
              SourceDate(x) \in WeekDates =>
                 /\ \E k \in DOMAIN frame : frame[k].src = x
                 /\ UniqueKeys => Cardinality({k \in DOMAIN frame : frame[k].src = x}) = 1
        /\ Len(report) = Len(frame)
        /\ \A k \in DOMAIN report : report[k].DATE \in WeekDates

C4_Witness ==
    /\ "served" \in pc
    /\ Len(inp.invoice) = 2
    /\ inp.invoice[1].type = "ITM_SALES_TAX" /\ inp.invoice[1].date = 1
    /\ inp.invoice[2].type # "ITM_SALES_TAX" /\ inp.invoice[2].date = 1
    /\ inp.customer = <<>>
    /\ refs.category = <<>>
    /\ UniqueKeys
    /\ Len(report) = 1
    /\ frame[1].src = <<"invoice", 2>>
    /\ frame[1].SALES_REP_ID = Null /\ frame[1].CATEGORY = Null /\ frame[1].FS = Null

====
